---- MODULE Spec2Model ----
(***************************************************************************)
(* Model of TeamsFileUpload.execute (src/src/nodes/TeamsFileUpload.node.ts)*)
(* together with the helper microsoftApiRequest.  One run of execute is a  *)
(* single sequential process; every `await` is split into a step that      *)
(* issues the HTTP request and a step that receives its outcome.  The      *)
(* Graph endpoint and the host's accessors are the environment: what they  *)
(* answer is chosen nondeterministically from small sets.                  *)
(***************************************************************************)
EXTENDS Integers, Sequences, FiniteSets, TLC

VARIABLES
    items,              \* this.getInputData(), with the node parameters of each item
    continueOnFail,     \* what this.continueOnFail() answers during the run
    pc,                 \* position of execute
    i,                  \* loop index (0-based, as in the code)
    returnData,         \* INodeExecutionData[] being built
    chatId,             \* locals of the loop body
    binaryPropertyName,
    message,
    fileName,
    fileBuffer,
    uploadSession,
    uploadResponse,
    error,              \* the error caught by the per-item catch
    thrown,             \* the error execute threw, once pc = "thrown"
    output,             \* what execute returned, once pc = "returned"
    inflight,           \* HTTP requests issued and not yet answered
    chat,               \* messages that exist in the Teams chats (Graph side)
    uploaded,           \* file bodies accepted by the upload endpoint (Graph side)
    trace               \* host accessor calls, HTTP requests and their outcomes, in order

vars == <<items, continueOnFail, pc, i, returnData, chatId, binaryPropertyName,
          message, fileName, fileBuffer, uploadSession, uploadResponse, error,
          thrown, output, inflight, chat, uploaded, trace>>

locals == <<chatId, binaryPropertyName, message, fileName, fileBuffer, uploadSession,
            uploadResponse>>

(***************************************************************************)
(* Bounds and value universes                                              *)
(***************************************************************************)
MaxItems == 2

Undefined == "<undefined>"          \* the JavaScript value undefined
ParamThrows == "<throws>"           \* a parameter whose evaluation throws

NoBinaryMessage == "No binary data found. Please make sure to connect a node that outputs files."
DefaultErrorMessage == "An error occurred while uploading the file"
DefaultFileName == "file"
GraphBase == "https://graph.microsoft.com"

ErrMsgs == {"", "Forbidden"}        \* messages an upstream failure may carry
PutResponses == {"", "created"}     \* raw bodies the upload endpoint may answer

NoError == [name |-> "", message |-> ""]
NoSession == [id |-> Undefined, uploadUrl |-> Undefined]

(***************************************************************************)
(* Binary payloads (IBinaryData): data is the base64 text, written as the  *)
(* sequence of its 6-bit digit values.                                     *)
(***************************************************************************)
PayloadA == [prop |-> "data", fileName |-> "a.txt", data |-> <<26, 6, 36>>]
PayloadB == [prop |-> "data", fileName |-> Undefined, data |-> <<16, 20, 9, 3>>]
PayloadC == [prop |-> "file", fileName |-> "", data |-> <<16, 20>>]

\* An input item with the node parameters the host evaluates for it.
InputPool ==
    { [binary |-> {PayloadA}, chatId |-> "c1", binaryPropertyName |-> "data", message |-> "hello"],
      [binary |-> {PayloadB}, chatId |-> "c1", binaryPropertyName |-> "data", message |-> ""],
      [binary |-> {},         chatId |-> "c1", binaryPropertyName |-> "data", message |-> ""],
      [binary |-> {PayloadC}, chatId |-> "c2", binaryPropertyName |-> "data", message |-> "hi"],
      [binary |-> {PayloadC}, chatId |-> "c2", binaryPropertyName |-> "file", message |-> ""],
      [binary |-> {PayloadA}, chatId |-> ParamThrows, binaryPropertyName |-> "data", message |-> ""],
      [binary |-> {PayloadA}, chatId |-> "c1", binaryPropertyName |-> "data", message |-> ParamThrows],
      [binary |-> {},         chatId |-> "c1", binaryPropertyName |-> ParamThrows, message |-> ""] }

ItemLists == UNION { [1..n -> InputPool] : n \in 0..MaxItems }

(***************************************************************************)
(* Pure helpers                                                            *)
(***************************************************************************)
\* a || b on strings: the empty string and undefined are falsy
OrElse(a, b) == IF a = "" \/ a = Undefined THEN b ELSE a

\* items[i].binary?.[name]
HasBinary(item, name) == \E p \in item.binary : p.prop = name
BinaryOf(item, name) == CHOOSE p \in item.binary : p.prop = name

\* Buffer.from(data, 'base64'): four 6-bit digits give three bytes, a tail of
\* three digits gives two bytes, of two digits one byte, of one digit none.
RECURSIVE Base64Decode(_)
Base64Decode(s) ==
    IF Len(s) < 2 THEN <<>>
    ELSE IF Len(s) = 2 THEN << s[1] * 4 + (s[2] \div 16) >>
    ELSE IF Len(s) = 3 THEN << s[1] * 4 + (s[2] \div 16),
                               (s[2] % 16) * 16 + (s[3] \div 4) >>
    ELSE << s[1] * 4 + (s[2] \div 16),
            (s[2] % 16) * 16 + (s[3] \div 4),
            (s[3] % 4) * 64 + s[4] >> \o Base64Decode(SubSeq(s, 5, Len(s)))

\* One entry of the trace: a call (ev), what it was for (name), the item being
\* processed, whether it went well, and the value passed or received.
Event(ev, name, item, ok, val) ==
    [ev |-> ev, name |-> name, item |-> item, ok |-> ok, val |-> val]

\* The parameters getNodeParameter is asked for, in the order of the code.
ParamNames == <<"chatId", "binaryPropertyName", "message">>
ParamValue(item, k) ==
    IF k = 1 THEN item.chatId ELSE IF k = 2 THEN item.binaryPropertyName ELSE item.message

\* How many of the three reads are performed: all, or up to the first that throws.
ReadsDone(item) ==
    IF item.chatId = ParamThrows THEN 1
    ELSE IF item.binaryPropertyName = ParamThrows THEN 2 ELSE 3
ParamsThrow(item) == \E k \in 1..3 : ParamValue(item, k) = ParamThrows

(***************************************************************************)
(* Initial state: execute is entered with some input and some host setting *)
(***************************************************************************)
Init ==
    /\ items \in ItemLists
    /\ continueOnFail \in BOOLEAN
    /\ pc = "loop"
    /\ i = 0
    /\ returnData = <<>>
    /\ chatId = Undefined
    /\ binaryPropertyName = Undefined
    /\ message = Undefined
    /\ fileName = Undefined
    /\ fileBuffer = <<>>
    /\ uploadSession = NoSession
    /\ uploadResponse = Undefined
    /\ error = NoError
    /\ thrown = NoError
    /\ output = <<>>
    /\ inflight = {}
    /\ chat = {}
    /\ uploaded = {}
    /\ trace = <<>>

(***************************************************************************)
(* Steps of execute                                                        *)
(***************************************************************************)
\* for (...; i < items.length; ...) and, when the loop is over, return [returnData]
LoopTest ==
    /\ pc = "loop"
    /\ IF i < Len(items)
       THEN /\ pc' = "params"
            /\ output' = output
       ELSE /\ pc' = "returned"
            /\ output' = returnData
    /\ UNCHANGED <<items, continueOnFail, i, returnData, locals, error, thrown,
                   inflight, chat, uploaded, trace>>

\* the three getNodeParameter calls, which stand before the try block
ReadParams ==
    /\ pc = "params"
    /\ LET item == items[i + 1]
           n == ReadsDone(item)
       IN /\ trace' = trace \o [k \in 1..n |->
                          Event("getNodeParameter", ParamNames[k], i,
                                ParamValue(item, k) # ParamThrows, ParamValue(item, k))]
          /\ IF ParamsThrow(item)
             THEN /\ pc' = "thrown"
                  /\ thrown' = [name |-> "ExpressionError", message |-> ParamNames[n]]
                  /\ UNCHANGED <<chatId, binaryPropertyName, message>>
             ELSE /\ pc' = "check"
                  /\ chatId' = item.chatId
                  /\ binaryPropertyName' = item.binaryPropertyName
                  /\ message' = item.message
                  /\ thrown' = thrown
    /\ UNCHANGED <<items, continueOnFail, i, returnData, fileName, fileBuffer,
                   uploadSession, uploadResponse, error, output, inflight, chat, uploaded>>

\* variant: no presence check before the requests
CheckBinaryAfterUpload ==
    /\ pc = "check"
    /\ LET item == items[i + 1]
       IN IF ~HasBinary(item, binaryPropertyName)
          THEN /\ fileName' = DefaultFileName
               /\ fileBuffer' = <<>>
          ELSE /\ fileName' = OrElse(BinaryOf(item, binaryPropertyName).fileName, DefaultFileName)
               /\ fileBuffer' = Base64Decode(BinaryOf(item, binaryPropertyName).data)
    /\ pc' = "create"
    /\ UNCHANGED <<items, continueOnFail, i, returnData, chatId, binaryPropertyName,
                   message, uploadSession, uploadResponse, error, thrown, output, inflight,
                   chat, uploaded, trace>>

\* the presence check and the resolution of file name and file bytes
CheckBinary ==
    /\ pc = "check"
    /\ LET item == items[i + 1]
       IN IF ~HasBinary(item, binaryPropertyName)
          THEN /\ error' = [name |-> "Error", message |-> NoBinaryMessage]
               /\ pc' = "catch"
               /\ UNCHANGED <<fileName, fileBuffer>>
          ELSE /\ fileName' = OrElse(BinaryOf(item, binaryPropertyName).fileName, DefaultFileName)
               /\ fileBuffer' = Base64Decode(BinaryOf(item, binaryPropertyName).data)
               /\ pc' = "create"
               /\ error' = error
    /\ UNCHANGED <<items, continueOnFail, i, returnData, chatId, binaryPropertyName,
                   message, uploadSession, uploadResponse, thrown, output, inflight,
                   chat, uploaded, trace>>

\* the options microsoftApiRequest builds for the create-message call
CreateRequest ==
    [method |-> "POST",
     uri |-> GraphBase \o "/v1.0/chats/" \o chatId \o "/messages",
     headers |-> [name |-> "Content-Type", value |-> "application/json"],
     body |-> [content |-> OrElse(message, fileName),
               attachments |-> <<[contentType |-> "reference", contentUrl |-> "null",
                                  name |-> fileName]>>],
     json |-> TRUE]

\* variant: only the first byte of the buffer is sent
PutRequestFirstByte ==
    [method |-> "PUT",
     uri |-> uploadSession.uploadUrl,
     headers |-> [name |-> "Content-Length", value |-> ToString(Len(fileBuffer))],
     body |-> SubSeq(fileBuffer, 1, 1),
     json |-> FALSE]

\* the options of the direct PUT of the file bytes
PutRequest ==
    [method |-> "PUT",
     uri |-> uploadSession.uploadUrl,
     headers |-> [name |-> "Content-Length", value |-> ToString(Len(fileBuffer))],
     body |-> fileBuffer,
     json |-> FALSE]

\* Step 1: microsoftApiRequest hands the POST to requestOAuth2 and awaits it
SendCreate ==
    /\ pc = "create"
    /\ inflight' = inflight \cup {CreateRequest}
    /\ trace' = trace \o <<Event("request", "POST", i, TRUE, CreateRequest)>>
    /\ pc' = "awaitCreate"
    /\ UNCHANGED <<items, continueOnFail, i, returnData, locals, error, thrown, output,
                   chat, uploaded>>

\* the POST returns: Graph has created the message and answers with it
CreateReturns ==
    /\ pc = "awaitCreate"
    /\ \E req \in inflight :
         /\ req.method = "POST"
         /\ LET id == "m" \o ToString(Cardinality(chat) + 1)
            IN /\ chat' = chat \cup {[id |-> id, uri |-> req.uri, content |-> req.body.content,
                                      attachment |-> req.body.attachments[1].name]}
               /\ \E url \in {Undefined, "https://upload/" \o id} :
                    uploadSession' = [id |-> id, uploadUrl |-> url]
         /\ inflight' = inflight \ {req}
    /\ trace' = trace \o <<Event("response", "POST", i, TRUE, uploadSession')>>
    /\ pc' = "put"
    /\ UNCHANGED <<items, continueOnFail, i, returnData, chatId, binaryPropertyName,
                   message, fileName, fileBuffer, uploadResponse, error, thrown, output,
                   uploaded>>

\* variant: a failed POST is sent once more before the error is passed on
CreateFailsRetriesOnce ==
    /\ pc = "awaitCreate"
    /\ \E req \in inflight :
         /\ req.method = "POST"
         /\ inflight' = inflight \ {req}
    /\ \E m \in ErrMsgs : error' = [name |-> "NodeApiError", message |-> m]
    /\ trace' = trace \o <<Event("response", "POST", i, FALSE, error'.message)>>
    /\ pc' = IF Cardinality({p \in 1 .. Len(trace) :
                               /\ trace[p].ev = "request"
                               /\ trace[p].item = i}) < 2
             THEN "create" ELSE "catch"
    /\ UNCHANGED <<items, continueOnFail, i, returnData, locals, thrown, output,
                   chat, uploaded>>

\* the POST fails: microsoftApiRequest rethrows it as a NodeApiError
CreateFails ==
    /\ pc = "awaitCreate"
    /\ \E req \in inflight :
         /\ req.method = "POST"
         /\ inflight' = inflight \ {req}
    /\ \E m \in ErrMsgs : error' = [name |-> "NodeApiError", message |-> m]
    /\ trace' = trace \o <<Event("response", "POST", i, FALSE, error'.message)>>
    /\ pc' = "catch"
    /\ UNCHANGED <<items, continueOnFail, i, returnData, locals, thrown, output,
                   chat, uploaded>>

\* variant: the PUT is not awaited
SendPutWithoutAwait ==
    /\ pc = "put"
    /\ inflight' = inflight \cup {PutRequest}
    /\ trace' = trace \o <<Event("request", "PUT", i, TRUE, PutRequest)>>
    /\ pc' = "push"
    /\ UNCHANGED <<items, continueOnFail, i, returnData, locals, error, thrown, output,
                   chat, uploaded>>

\* Step 2: the PUT of the file bytes is handed to requestOAuth2 and awaited
SendPut ==
    /\ pc = "put"
    /\ inflight' = inflight \cup {PutRequest}
    /\ trace' = trace \o <<Event("request", "PUT", i, TRUE, PutRequest)>>
    /\ pc' = "awaitPut"
    /\ UNCHANGED <<items, continueOnFail, i, returnData, locals, error, thrown, output,
                   chat, uploaded>>

\* the PUT returns: the endpoint has stored the body and answers
PutReturns ==
    /\ pc = "awaitPut"
    /\ \E req \in inflight :
         /\ req.method = "PUT"
         /\ uploaded' = uploaded \cup {[uri |-> req.uri, bytes |-> req.body]}
         /\ inflight' = inflight \ {req}
    /\ \E r \in PutResponses : uploadResponse' = r
    /\ trace' = trace \o <<Event("response", "PUT", i, TRUE, uploadResponse')>>
    /\ pc' = "push"
    /\ UNCHANGED <<items, continueOnFail, i, returnData, chatId, binaryPropertyName,
                   message, fileName, fileBuffer, uploadSession, error, thrown, output,
                   chat>>

\* variant: the failure of the PUT is swallowed and the item counts as uploaded
PutFailsIgnored ==
    /\ pc = "awaitPut"
    /\ \E req \in inflight :
         /\ req.method = "PUT"
         /\ inflight' = inflight \ {req}
    /\ \E m \in ErrMsgs :
         trace' = trace \o <<Event("response", "PUT", i, FALSE, m)>>
    /\ pc' = "push"
    /\ UNCHANGED <<items, continueOnFail, i, returnData, locals, error, thrown, output,
                   chat, uploaded>>

\* the PUT fails: the error of requestOAuth2 reaches the catch as it is
PutFails ==
    /\ pc = "awaitPut"
    /\ \E req \in inflight :
         /\ req.method = "PUT"
         /\ inflight' = inflight \ {req}
    /\ \E m \in ErrMsgs : error' = [name |-> "Error", message |-> m]
    /\ trace' = trace \o <<Event("response", "PUT", i, FALSE, error'.message)>>
    /\ pc' = "catch"
    /\ UNCHANGED <<items, continueOnFail, i, returnData, locals, thrown, output,
                   chat, uploaded>>

\* the loop body's constants go out of scope when the iteration ends
FreshLocals ==
    /\ chatId' = Undefined
    /\ binaryPropertyName' = Undefined
    /\ message' = Undefined
    /\ fileName' = Undefined
    /\ fileBuffer' = <<>>
    /\ uploadSession' = NoSession
    /\ uploadResponse' = Undefined

\* variant: the payload's file name as it is, without the 'file' default
SuccessRecordRawName ==
    [success |-> TRUE, messageId |-> uploadSession.id,
     fileName |-> BinaryOf(items[i + 1], binaryPropertyName).fileName,
     uploadResponse |-> uploadResponse]

\* the record pushed at line 166
SuccessRecord ==
    [success |-> TRUE, messageId |-> uploadSession.id, fileName |-> fileName,
     uploadResponse |-> uploadResponse]

\* variant: the fixed text instead of the error's own message
ErrorRecordGeneric ==
    [success |-> FALSE, error |-> DefaultErrorMessage]

\* the record pushed at line 176: error.message || '<default text>'
ErrorRecord ==
    [success |-> FALSE, error |-> OrElse(error.message, DefaultErrorMessage)]

\* variant: one record object shared by all iterations, so every element of
\* returnData is the record written last
PushSharedRecord ==
    /\ pc = "push"
    /\ returnData' = [k \in 1 .. (Len(returnData) + 1) |-> SuccessRecord]
    /\ i' = i + 1
    /\ pc' = "loop"
    /\ FreshLocals
    /\ UNCHANGED <<items, continueOnFail, error, thrown, output, inflight, chat,
                   uploaded, trace>>

\* variant: unshift instead of push
PushSuccessInFront ==
    /\ pc = "push"
    /\ returnData' = <<SuccessRecord>> \o returnData
    /\ i' = i + 1
    /\ pc' = "loop"
    /\ FreshLocals
    /\ UNCHANGED <<items, continueOnFail, error, thrown, output, inflight, chat,
                   uploaded, trace>>

\* returnData.push({json: {success: true, ...}}), then i++
PushSuccess ==
    /\ pc = "push"
    /\ returnData' = Append(returnData, SuccessRecord)
    /\ i' = i + 1
    /\ pc' = "loop"
    /\ FreshLocals
    /\ UNCHANGED <<items, continueOnFail, error, thrown, output, inflight, chat,
                   uploaded, trace>>

\* variants of the catch used to test the properties
CatchDropsRecord ==
    /\ pc = "catch"
    /\ IF continueOnFail
       THEN /\ i' = i + 1
            /\ pc' = "loop"
            /\ error' = NoError
            /\ FreshLocals
            /\ UNCHANGED <<returnData, thrown>>
       ELSE /\ thrown' = [name |-> "NodeApiError", message |-> error.message]
            /\ pc' = "thrown"
            /\ UNCHANGED <<returnData, i, error, locals>>
    /\ UNCHANGED <<items, continueOnFail, output, inflight, chat, uploaded, trace>>

CatchAlwaysContinues ==
    /\ pc = "catch"
    /\ returnData' = Append(returnData, ErrorRecord)
    /\ i' = i + 1
    /\ pc' = "loop"
    /\ error' = NoError
    /\ FreshLocals
    /\ UNCHANGED <<items, continueOnFail, thrown, output, inflight, chat, uploaded, trace>>

CatchWithRollback ==
    /\ pc = "catch"
    /\ chat' = {m \in chat : m.id # uploadSession.id}
    /\ IF continueOnFail
       THEN /\ returnData' = Append(returnData, ErrorRecord)
            /\ i' = i + 1
            /\ pc' = "loop"
            /\ error' = NoError
            /\ thrown' = thrown
            /\ FreshLocals
       ELSE /\ thrown' = [name |-> "NodeApiError", message |-> error.message]
            /\ pc' = "thrown"
            /\ UNCHANGED <<returnData, i, error, locals>>
    /\ UNCHANGED <<items, continueOnFail, output, inflight, uploaded, trace>>

\* variant: on a failure in abort mode the records built so far are returned
CatchReturnsPartial ==
    /\ pc = "catch"
    /\ IF continueOnFail
       THEN /\ returnData' = Append(returnData, ErrorRecord)
            /\ i' = i + 1
            /\ pc' = "loop"
            /\ error' = NoError
            /\ output' = output
            /\ FreshLocals
       ELSE /\ output' = returnData
            /\ pc' = "returned"
            /\ UNCHANGED <<returnData, i, error, locals>>
    /\ UNCHANGED <<items, continueOnFail, thrown, inflight, chat, uploaded, trace>>

\* catch (error): an error record and `continue`, or a NodeApiError out of execute
Catch ==
    /\ pc = "catch"
    /\ IF continueOnFail
       THEN /\ returnData' = Append(returnData, ErrorRecord)
            /\ i' = i + 1
            /\ pc' = "loop"
            /\ error' = NoError
            /\ thrown' = thrown
            /\ FreshLocals
       ELSE /\ thrown' = [name |-> "NodeApiError", message |-> error.message]
            /\ pc' = "thrown"
            /\ UNCHANGED <<returnData, i, error, locals>>
    /\ UNCHANGED <<items, continueOnFail, output, inflight, chat, uploaded, trace>>

Next ==
    \/ LoopTest
    \/ ReadParams
    \/ CheckBinary
    \/ SendCreate
    \/ CreateReturns
    \/ CreateFails
    \/ SendPut
    \/ PutReturns
    \/ PutFails
    \/ PushSuccess
    \/ Catch

Spec == Init /\ [][Next]_vars

\* Every step of execute that can be taken is taken in the end: the host runs
\* the function to its next await, and every HTTP request is answered.
FairSpec == Spec /\ WF_vars(Next)

(***************************************************************************)
(* Vocabulary of the properties (items are numbered from 0, as in the code)*)
(***************************************************************************)
ItemIndexes == 0 .. (Len(items) - 1)
Positions == 1 .. Len(trace)
Finished == pc \in {"returned", "thrown"}

Responded(k, method, ok) ==
    \E p \in Positions : /\ trace[p].ev = "response"
                         /\ trace[p].name = method
                         /\ trace[p].item = k
                         /\ trace[p].ok = ok
ResponseOf(k, method) ==
    trace[CHOOSE p \in Positions : /\ trace[p].ev = "response"
                                   /\ trace[p].name = method
                                   /\ trace[p].item = k].val
Requested(k) == \E p \in Positions : trace[p].ev = "request" /\ trace[p].item = k
Touched(k) == \E p \in Positions : trace[p].item = k

\* the three parameters of item k have been read without an exception
ParamsRead(k) ==
    \E p \in Positions : /\ trace[p].ev = "getNodeParameter"
                         /\ trace[p].name = "message"
                         /\ trace[p].item = k
                         /\ trace[p].ok
ParamReadThrew(k) ==
    \E p \in Positions : /\ trace[p].ev = "getNodeParameter"
                         /\ trace[p].item = k
                         /\ ~trace[p].ok

\* item k carries no binary payload under the configured property name
MissingBinary(k) ==
    /\ items[k + 1].binaryPropertyName # ParamThrows
    /\ ~HasBinary(items[k + 1], items[k + 1].binaryPropertyName)
\* the presence check of item k has run and found nothing
PresenceCheckFailed(k) ==
    /\ MissingBinary(k)
    /\ ParamsRead(k)
    /\ ~(pc = "check" /\ i = k)

\* item k failed in one of the three ways the try block can fail
UploadFailed(k) ==
    \/ MissingBinary(k)
    \/ Responded(k, "POST", FALSE)
    \/ Responded(k, "PUT", FALSE)
\* some failure of item k has happened, inside or before the try block
FailureObserved(k) ==
    \/ ParamReadThrew(k)
    \/ PresenceCheckFailed(k)
    \/ Responded(k, "POST", FALSE)
    \/ Responded(k, "PUT", FALSE)

(***************************************************************************)
(* C1                                                                      *)
(***************************************************************************)
\* C1: with continue-on-failure enabled and failures only of the kinds missing
\* binary payload, failed create-message request or failed PUT, execute does
\* not throw, and what it returns has exactly one record per input item, with
\* success = FALSE for exactly the items that failed.
C1_ContinueOnFailOneRecordPerItem ==
    continueOnFail =>
        /\ (\A k \in ItemIndexes : ~ParamsThrow(items[k + 1])) => pc # "thrown"
        /\ pc = "returned" =>
              /\ Len(output) = Len(items)
              /\ \A k \in ItemIndexes : output[k + 1].success = ~UploadFailed(k)

C1_Witness ==
    /\ continueOnFail
    /\ pc = "returned"
    /\ Len(items) = 2
    /\ Len(output) = 2
    /\ Responded(0, "PUT", FALSE) /\ ~output[1].success
    /\ Responded(1, "PUT", TRUE) /\ output[2].success

(***************************************************************************)
(* C2                                                                      *)
(***************************************************************************)
\* C2: with continue-on-failure disabled, once item k has failed execute is on
\* its way out by an exception (it is in the catch or has thrown, and never
\* returns), and nothing is ever done for a later item: no parameter read, no
\* create-message request and no PUT carries an index greater than k.
C2_AbortStopsAtFirstFailure ==
    ~continueOnFail =>
        \A k \in ItemIndexes :
            FailureObserved(k) =>
                /\ pc \in {"catch", "thrown"}
                /\ i = k
                /\ \A p \in Positions : trace[p].item <= k

C2_Witness ==
    /\ ~continueOnFail
    /\ pc = "thrown"
    /\ Len(items) = 2
    /\ Responded(0, "POST", FALSE)
    /\ ~Touched(1)

(***************************************************************************)
(* C3                                                                      *)
(***************************************************************************)
\* the record item k must have given, read off its input and its HTTP outcomes
ExpectedRecord(k) ==
    IF MissingBinary(k)
    THEN [success |-> FALSE, error |-> NoBinaryMessage]
    ELSE IF Responded(k, "POST", FALSE)
    THEN [success |-> FALSE, error |-> OrElse(ResponseOf(k, "POST"), DefaultErrorMessage)]
    ELSE IF Responded(k, "PUT", FALSE)
    THEN [success |-> FALSE, error |-> OrElse(ResponseOf(k, "PUT"), DefaultErrorMessage)]
    ELSE [success |-> TRUE,
          messageId |-> ResponseOf(k, "POST").id,
          fileName |-> OrElse(BinaryOf(items[k + 1], items[k + 1].binaryPropertyName).fileName,
                              DefaultFileName),
          uploadResponse |-> ResponseOf(k, "PUT")]

\* C3: whenever execute returns normally, the output has one record per input
\* item and its k-th record is the record of the k-th input item.
C3_OutputInInputOrder ==
    pc = "returned" =>
        /\ Len(output) = Len(items)
        /\ \A k \in ItemIndexes : output[k + 1] = ExpectedRecord(k)

C3_Witness ==
    /\ pc = "returned"
    /\ Len(items) = 2
    /\ Len(output) = 2
    /\ output[1].success /\ output[1].fileName = "a.txt" /\ output[1].messageId = "m1"
    /\ output[2].success /\ output[2].fileName = "file" /\ output[2].messageId = "m2"

(***************************************************************************)
(* C4                                                                      *)
(***************************************************************************)
\* C4: with continue-on-failure enabled every failure of an item, whatever the
\* step (the parameter reads included), ends in an error record for that item
\* and the loop goes on, so execute never throws in that mode.
C4_ContinueOnFailNeverThrows ==
    continueOnFail =>
        /\ pc # "thrown"
        /\ \A k \in ItemIndexes :
              (FailureObserved(k) /\ ~(pc = "catch" /\ i = k)) =>
                  /\ Len(returnData) > k
                  /\ ~returnData[k + 1].success

(***************************************************************************)
(* C5                                                                      *)
(***************************************************************************)
\* C5: when the presence check of item k finds no binary payload under the
\* configured property name, a "no binary data" error is raised for item k:
\* in continue-on-failure mode the record of item k is
\* {success: false, error: <the no-binary-data message>}, otherwise execute
\* throws at item k with that message.
C5_NoBinaryDataError ==
    \A k \in ItemIndexes :
        PresenceCheckFailed(k) =>
            IF continueOnFail
            THEN \/ /\ pc = "catch" /\ i = k
                    /\ error = [name |-> "Error", message |-> NoBinaryMessage]
                 \/ /\ Len(returnData) > k
                    /\ returnData[k + 1] = [success |-> FALSE, error |-> NoBinaryMessage]
            ELSE /\ i = k
                 /\ \/ /\ pc = "catch"
                       /\ error = [name |-> "Error", message |-> NoBinaryMessage]
                    \/ /\ pc = "thrown"
                       /\ thrown = [name |-> "NodeApiError", message |-> NoBinaryMessage]

C5_Witness ==
    /\ continueOnFail
    /\ pc = "returned"
    /\ Len(items) = 2
    /\ items[2].binary # {}
    /\ PresenceCheckFailed(1)
    /\ output[2] = [success |-> FALSE, error |-> NoBinaryMessage]

(***************************************************************************)
(* C6                                                                      *)
(***************************************************************************)
\* C6: there is no rollback.  Once the PUT of item k has failed after its
\* create-message request succeeded, the created message is in the chat in
\* every later state, in either failure mode, and the only requests execute
\* ever issues are the POST and the PUT (nothing deletes or compensates).
C6_NoRollback ==
    /\ \A k \in ItemIndexes :
          Responded(k, "PUT", FALSE) =>
              \E m \in chat : m.id = ResponseOf(k, "POST").id
    /\ \A p \in Positions :
          trace[p].ev = "request" => trace[p].name \in {"POST", "PUT"}

\* an orphaned message at the end of an aborted run: created, nothing uploaded
C6_Witness ==
    /\ ~continueOnFail
    /\ pc = "thrown"
    /\ Responded(0, "PUT", FALSE)
    /\ \E m \in chat : m.id = ResponseOf(0, "POST").id
    /\ uploaded = {}

(***************************************************************************)
(* C7                                                                      *)
(***************************************************************************)
IsPut(p) == trace[p].ev = "request" /\ trace[p].name = "PUT"

RequestsBefore(p) == Cardinality({q \in 1 .. (p - 1) : trace[q].ev = "request"})
ResponsesBefore(p) == Cardinality({q \in 1 .. (p - 1) : trace[q].ev = "response"})

\* C8: items are processed one after the other: at most one HTTP request is in
\* flight, every parameter read and every request starts only when all earlier
\* requests have been answered, and the calls appear in item order.
C8_StrictlySequential ==
    /\ Cardinality(inflight) <= 1
    /\ \A p \in Positions :
          trace[p].ev \in {"getNodeParameter", "request"} =>
              RequestsBefore(p) = ResponsesBefore(p)
    /\ \A p, q \in Positions : p < q => trace[p].item <= trace[q].item

C8_Witness ==
    /\ Len(items) = 2
    /\ Responded(0, "PUT", TRUE)
    /\ Requested(1)
    /\ Cardinality(inflight) = 1

(***************************************************************************)
(* C9                                                                      *)
(***************************************************************************)
\* C9: once the create-message request and the PUT of item k have both
\* succeeded, the record of item k is {success: true, messageId, fileName,
\* uploadResponse} with the id of that create-message answer, the payload's
\* file name ('file' when it has none or an empty one) and the answer of that
\* PUT.
C9_SuccessRecord ==
    \A k \in ItemIndexes :
        (Responded(k, "POST", TRUE) /\ Responded(k, "PUT", TRUE)) =>
            \/ pc = "push" /\ i = k
            \/ /\ Len(returnData) > k
               /\ LET name == BinaryOf(items[k + 1], items[k + 1].binaryPropertyName).fileName
                  IN returnData[k + 1] =
                         [success |-> TRUE,
                          messageId |-> ResponseOf(k, "POST").id,
                          fileName |-> IF name \in {Undefined, ""} THEN "file" ELSE name,
                          uploadResponse |-> ResponseOf(k, "PUT")]

C9_Witness ==
    /\ Len(returnData) = 2
    /\ returnData[1] = [success |-> TRUE, messageId |-> "m1", fileName |-> "a.txt",
                        uploadResponse |-> "created"]
    /\ returnData[2] = [success |-> TRUE, messageId |-> "m2", fileName |-> "file",
                        uploadResponse |-> ""]

(***************************************************************************)
(* C10                                                                     *)
(***************************************************************************)
\* C10: an item without a binary payload under the configured property name
\* never has an HTTP request issued for it, in either failure mode.
C10_NoRequestWithoutBinary ==
    \A k \in ItemIndexes : MissingBinary(k) => ~Requested(k)

C10_Witness ==
    /\ Finished
    /\ Len(items) = 2
    /\ Requested(0)
    /\ PresenceCheckFailed(1)
    /\ ~Requested(1)

(***************************************************************************)
(* C11                                                                     *)
(***************************************************************************)
\* C11: no state is shared between items.  No step changes or removes a record
\* that is already in returnData, and after every step the record of each item
\* k is the one determined by item k's own parameters, binary payload and HTTP
\* outcomes alone (ExpectedRecord(k) reads nothing of any other item).
C11_NoSharedStateBetweenItems ==
    [][ /\ Len(returnData') >= Len(returnData)
        /\ \A k \in 1 .. Len(returnData) : returnData'[k] = returnData[k]
        /\ \A k \in 1 .. Len(returnData') : returnData'[k] = ExpectedRecord(k - 1)' ]_vars

\* two items with the same input and different HTTP outcomes have different records
C11_Witness ==
    /\ Len(items) = 2
    /\ items[1] = items[2]
    /\ Len(returnData) = 2
    /\ returnData[1].success
    /\ returnData[2] = [success |-> FALSE, error |-> "Forbidden"]

(***************************************************************************)
(* C12                                                                     *)
(***************************************************************************)
\* C12: in every reachable state returnData holds exactly one record for each
\* item the loop has left behind and none for the others; the record of item k
\* has success = TRUE only if both the create-message request and the PUT of
\* item k succeeded, and never if one of them failed.
C12_SuccessOnlyAfterBothRequests ==
    /\ Len(returnData) = i
    /\ i <= Len(items)
    /\ \A k \in ItemIndexes :
          Len(returnData) > k =>
              /\ returnData[k + 1].success =>
                     Responded(k, "POST", TRUE) /\ Responded(k, "PUT", TRUE)
              /\ (Responded(k, "POST", FALSE) \/ Responded(k, "PUT", FALSE)) =>
                     ~returnData[k + 1].success

C12_Witness ==
    /\ Len(items) = 2
    /\ Len(returnData) = 2
    /\ returnData[1].success
    /\ Responded(1, "POST", TRUE)
    /\ Responded(1, "PUT", FALSE)
    /\ ~returnData[2].success

(***************************************************************************)
(* C13                                                                     *)
(***************************************************************************)
\* the message and the file of item k are on the Graph side
RemoteEffectsOf(k) ==
    /\ \E m \in chat : m.id = ResponseOf(k, "POST").id
    /\ \E u \in uploaded : u.uri = ResponseOf(k, "POST").uploadUrl

\* C13: with continue-on-failure disabled, once an item has failed execute
\* never returns and hands nothing to its caller (no output at all, not even
\* the success records built for the items before), while the messages and
\* uploads of those earlier items have been performed and remain.
C13_AbortDeliversNothing ==
    (~continueOnFail /\ \E k \in ItemIndexes : FailureObserved(k)) =>
        /\ pc # "returned"
        /\ output = <<>>
        /\ \A k \in 0 .. (i - 1) :
              /\ returnData[k + 1].success
              /\ RemoteEffectsOf(k)

C13_Witness ==
    /\ ~continueOnFail
    /\ pc = "thrown"
    /\ i = 1
    /\ FailureObserved(1)
    /\ Len(returnData) = 1
    /\ returnData[1].success
    /\ output = <<>>
    /\ RemoteEffectsOf(0)

(***************************************************************************)
(* C14                                                                     *)
(***************************************************************************)
RequestsOf(k, method) ==
    Cardinality({p \in Positions : /\ trace[p].ev = "request"
                                   /\ trace[p].name = method
                                   /\ trace[p].item = k})
TotalRequests == Cardinality({p \in Positions : trace[p].ev = "request"})

====
